---- MODULE Spec2Model ----
(***************************************************************************)
(* Model of main.py: a FastAPI application with two GET routes,            *)
(*   "/"                 -> read_root()                                     *)
(*   "/items/{item_id}"  -> read_item(item_id: int, q: str = None)          *)
(* A request is a URL path (a sequence of characters) and a query string   *)
(* (a sequence of key/value pairs).  Each worker takes a request, the      *)
(* route table `app` selects the endpoint, the declared parameter types    *)
(* convert the path segment and the query value, the endpoint builds a     *)
(* dict and the dict is returned as a JSON object.                         *)
(* Python values and JSON values are tagged records, so that an int, a     *)
(* str and None (a number, a string and null) are different values.        *)
(* Only GET requests are modelled, and path segments hold no "/".          *)
(***************************************************************************)
EXTENDS Integers, Sequences, FiniteSets, TLC

\* Bounds of the model.
MaxSegLen == 2
NumWorkers == 2

VARIABLES app, pc, request, called, response

vars == <<app, pc, request, called, response>>

Workers == 1..NumWorkers

-----------------------------------------------------------------------------
\* Python values (what the endpoints receive and return).

None == [type |-> "NoneType"]

PyStr(s) == [type |-> "str", val |-> s]

PyInt(n) == [type |-> "int", val |-> n]

\* JSON values (what the response body holds).

JsonNull == [type |-> "null"]

JsonString(s) == [type |-> "string", val |-> s]

JsonNumber(n) == [type |-> "number", val |-> n]

\* The JSON encoding of a Python value returned by an endpoint.
jsonable(v) ==
    IF v.type = "NoneType" THEN JsonNull
    ELSE IF v.type = "str" THEN JsonString(v.val)
    ELSE JsonNumber(v.val)

\* The JSON object of a Python dict: same keys, each value encoded.
JSONResponse(d) == [status |-> 200, body |-> [k \in DOMAIN d |-> jsonable(d[k])]]

-----------------------------------------------------------------------------
\* Characters and decimal integers.

DigitChars == <<"0", "1", "2", "3", "4", "5", "6", "7", "8", "9">>

Digits == {DigitChars[i] : i \in DOMAIN DigitChars}

DigitVal(c) == (CHOOSE i \in DOMAIN DigitChars : DigitChars[i] = c) - 1

\* The characters a path segment of a modelled request is made of.
SegChars == Digits \cup {"-", "a"}

\* A string int() accepts: an optional "-" then one or more digits.
IsIntLiteral(s) ==
    LET d == IF Len(s) > 0 /\ s[1] = "-" THEN Tail(s) ELSE s
    IN  Len(d) > 0 /\ \A i \in DOMAIN d : d[i] \in Digits

RECURSIVE Magnitude(_)
Magnitude(d) ==
    IF d = <<>> THEN 0
    ELSE Magnitude(SubSeq(d, 1, Len(d) - 1)) * 10 + DigitVal(d[Len(d)])

\* int(s) that loses the sign.
int_unsigned(s) == IF s[1] = "-" THEN Magnitude(Tail(s)) ELSE Magnitude(s)

\* int(s) for a string that IsIntLiteral.
int(s) == IF s[1] = "-" THEN 0 - Magnitude(Tail(s)) ELSE Magnitude(s)

-----------------------------------------------------------------------------
\* Routing: app = FastAPI() with the two @app.get routes, in declaration order.
\* A route with a parameter matches its prefix followed by one non-empty
\* segment without "/"; a route without one matches its path exactly.

RootPath == <<"/">>

ItemsPrefix == <<"/", "i", "t", "e", "m", "s", "/">>

Routes ==
    << [path |-> RootPath, param |-> "", endpoint |-> "read_root"],
       [path |-> ItemsPrefix, param |-> "item_id", endpoint |-> "read_item"] >>

PathParam(route, path) == SubSeq(path, Len(route.path) + 1, Len(path))

Matches(route, path) ==
    IF route.param = "" THEN path = route.path
    ELSE /\ Len(path) > Len(route.path)
         /\ SubSeq(path, 1, Len(route.path)) = route.path
         /\ \A i \in DOMAIN PathParam(route, path) : PathParam(route, path)[i] # "/"

\* The index in the route table of the first route that matches, 0 if none.
Match(routes, path) ==
    LET hits == {i \in DOMAIN routes : Matches(routes[i], path)}
    IN  IF hits = {} THEN 0 ELSE CHOOSE i \in hits : \A j \in hits : i <= j

Endpoint(routes, path) ==
    IF Match(routes, path) = 0 THEN "none" ELSE routes[Match(routes, path)].endpoint

-----------------------------------------------------------------------------
\* Parameters of read_item(item_id: int, q: str = None).

\* item_id declared without a type: every segment is passed on as a str.
item_id_as_str(seg) == [ok |-> TRUE, val |-> PyStr(seg)]

\* item_id accepted only when made of digits: a negative integer is refused.
item_id_digits_only(seg) ==
    IF Len(seg) > 0 /\ \A i \in DOMAIN seg : seg[i] \in Digits
    THEN [ok |-> TRUE, val |-> PyInt(int(seg))]
    ELSE [ok |-> FALSE, val |-> None]

\* item_id: the path segment converted to int, or a validation error.
item_id_param(seg) ==
    IF IsIntLiteral(seg) THEN [ok |-> TRUE, val |-> PyInt(int(seg))]
    ELSE [ok |-> FALSE, val |-> None]

HasKey(query, key) == \E i \in DOMAIN query : query[i][1] = key

\* q with the default "" in place of None.
q_param_empty_default(query) ==
    IF HasKey(query, "q")
    THEN PyStr(query[CHOOSE i \in DOMAIN query : query[i][1] = "q"][2])
    ELSE PyStr("")

\* q kept in a place all workers share: a request without q sees the q of
\* a request another worker holds.
q_param_shared(query) ==
    IF HasKey(query, "q")
    THEN PyStr(query[CHOOSE i \in DOMAIN query : query[i][1] = "q"][2])
    ELSE IF \E v \in Workers : HasKey(request[v].query, "q")
         THEN LET held == request[CHOOSE v \in Workers : HasKey(request[v].query, "q")].query
              IN  PyStr(held[CHOOSE i \in DOMAIN held : held[i][1] = "q"][2])
         ELSE None

\* q: the value of the query parameter "q" when the query has one, else the
\* default None.
q_param(query) ==
    IF HasKey(query, "q")
    THEN PyStr(query[CHOOSE i \in DOMAIN query :
                       /\ query[i][1] = "q"
                       /\ \A j \in DOMAIN query : query[j][1] = "q" => j <= i][2])
    ELSE None

-----------------------------------------------------------------------------
\* The endpoints.

\* read_root with another greeting.
read_root_typo == [message |-> PyStr("Hello, World!")]

read_root == [message |-> PyStr("Hello World")]

\* read_item written with `q or None`: the empty string becomes None.
read_item_falsy(item_id, q) ==
    [item_id |-> item_id, q |-> IF q = PyStr("") THEN None ELSE q]

\* read_item that returns a third key.
read_item_leak(item_id, q) == [item_id |-> item_id, q |-> q, message |-> PyStr("Hello World")]

read_item(item_id, q) == [item_id |-> item_id, q |-> q]

\* The error responses of the framework.
ValidationError == [status |-> 422, body |-> [detail |-> JsonString("validation error")]]

NotFoundError == [status |-> 404, body |-> [detail |-> JsonString("Not Found")]]

-----------------------------------------------------------------------------
\* Requests.

Segs == UNION {[1..n -> SegChars] : n \in 0..MaxSegLen}

Paths == {RootPath, <<"/", "i", "t", "e", "m", "s">>} \cup {ItemsPrefix \o s : s \in Segs}

QValues == {"", "foo"}

Queries ==
    {<<>>, << <<"r", "foo">> >>}
        \cup {<< <<"q", s>> >> : s \in QValues}
        \cup {<< <<"r", "foo">>, <<"q", s>> >> : s \in QValues}

Requests == [path : Paths, query : Queries]

\* The requests of the concurrent specification: one of each outcome.
ConcPaths ==
    {RootPath, ItemsPrefix, ItemsPrefix \o <<"7">>, ItemsPrefix \o <<"-", "1">>,
     ItemsPrefix \o <<"a">>}

ConcRequests == [path : ConcPaths, query : {<<>>, << <<"q", "foo">> >>}]

NoRequest == [path |-> <<>>, query |-> <<>>]

NoResponse == [status |-> 0, body |-> <<>>]

-----------------------------------------------------------------------------
\* The state machine.

Init ==
    /\ app = Routes
    /\ pc = [w \in Workers |-> "idle"]
    /\ request = [w \in Workers |-> NoRequest]
    /\ called = [w \in Workers |-> "none"]
    /\ response = [w \in Workers |-> NoResponse]

\* A worker takes a request, any one of the set reqs.
Receive(w, reqs) ==
    /\ pc[w] = "idle"
    /\ \E r \in reqs : request' = [request EXCEPT ![w] = r]
    /\ pc' = [pc EXCEPT ![w] = "received"]
    /\ UNCHANGED <<app, called, response>>

Respond(w, endpoint, resp) ==
    /\ pc' = [pc EXCEPT ![w] = "done"]
    /\ called' = [called EXCEPT ![w] = endpoint]
    /\ response' = [response EXCEPT ![w] = resp]
    /\ UNCHANGED <<app, request>>

\* GET / : read_root is called and its dict returned.
ReadRoot(w) ==
    /\ pc[w] = "received"
    /\ Endpoint(app, request[w].path) = "read_root"
    /\ Respond(w, "read_root", JSONResponse(read_root))

\* GET /items/{item_id} with an item_id that converts: read_item is called.
ReadItem(w) ==
    /\ pc[w] = "received"
    /\ Endpoint(app, request[w].path) = "read_item"
    /\ LET item_id == item_id_param(PathParam(app[Match(app, request[w].path)],
                                              request[w].path))
           q == q_param(request[w].query)
       IN  /\ item_id.ok
           /\ Respond(w, "read_item", JSONResponse(read_item(item_id.val, q)))

\* GET /items/{item_id} with an item_id that does not convert: the request
\* is answered with a validation error and read_item is not called.
RejectItem(w) ==
    /\ pc[w] = "received"
    /\ Endpoint(app, request[w].path) = "read_item"
    /\ ~item_id_param(PathParam(app[Match(app, request[w].path)],
                                request[w].path)).ok
    /\ Respond(w, "none", ValidationError)

\* No route matches.
NotFound(w) ==
    /\ pc[w] = "received"
    /\ Endpoint(app, request[w].path) = "none"
    /\ Respond(w, "none", NotFoundError)

\* The response is sent; the request's values are discarded.
Send(w) ==
    /\ pc[w] = "done"
    /\ pc' = [pc EXCEPT ![w] = "idle"]
    /\ request' = [request EXCEPT ![w] = NoRequest]
    /\ called' = [called EXCEPT ![w] = "none"]
    /\ response' = [response EXCEPT ![w] = NoResponse]
    /\ UNCHANGED app

Handle(w) == ReadRoot(w) \/ ReadItem(w) \/ RejectItem(w) \/ NotFound(w) \/ Send(w)

\* One request at a time, every request of the bounded input space.
Next ==
    \/ Receive(1, Requests)
    \/ Handle(1)

Spec == Init /\ [][Next]_vars

\* Several workers at once, every interleaving of their steps.
ConcNext ==
    \/ \E w \in Workers : Receive(w, ConcRequests)
    \/ \E w \in Workers : Handle(w)

ConcSpec == Init /\ [][ConcNext]_vars

-----------------------------------------------------------------------------
\* Vocabulary of the properties.

\* The decimal text of an integer, as a client writes it in the URL.
RECURSIVE DecDigits(_)
DecDigits(n) ==
    IF n < 10 THEN <<DigitChars[n + 1]>>
    ELSE DecDigits(n \div 10) \o <<DigitChars[(n % 10) + 1]>>

str(n) == IF n < 0 THEN <<"-">> \o DecDigits(0 - n) ELSE DecDigits(n)

\* The integers whose decimal text fits a path segment of the model.
ValidInts == {n \in (0 - 10^MaxSegLen)..(10^MaxSegLen) : Len(str(n)) <= MaxSegLen}

StrOf == [n \in ValidInts |-> str(n)]

\* GET /items/{n}.
ItemPathOf == [n \in ValidInts |-> ItemsPrefix \o StrOf[n]]

ItemPath(n) == ItemPathOf[n]

\* The request of worker w is GET /items/{seg} for a non-empty segment.
IsItemRequest(w) ==
    /\ Len(request[w].path) > Len(ItemsPrefix)
    /\ SubSeq(request[w].path, 1, Len(ItemsPrefix)) = ItemsPrefix

Segment(w) == SubSeq(request[w].path, Len(ItemsPrefix) + 1, Len(request[w].path))

\* The request of worker w carries q=s / carries no q.
HasQ(w, s) == \E i \in DOMAIN request[w].query : request[w].query[i] = <<"q", s>>

NoQ(w) == \A i \in DOMAIN request[w].query : request[w].query[i][1] # "q"

Answered(w) == pc[w] = "done"

-----------------------------------------------------------------------------
\* C1: for every valid integer n and every q, GET /items/{n} answers with an
\* item response whose item_id is the JSON number n: the same integer, not
\* another integer and not a string.
C1_ItemIdRoundTrip ==
    \A w \in Workers :
        (Answered(w) /\ IsItemRequest(w))
            => \A n \in ValidInts :
                   request[w].path = ItemPath(n)
                       => /\ response[w].status = 200
                          /\ "item_id" \in DOMAIN response[w].body
                          /\ response[w].body.item_id = JsonNumber(n)

C1_Witness ==
    /\ Answered(1)
    /\ request[1].path = ItemPath(-7)
    /\ called[1] = "read_item"
    /\ response[1].body.item_id = JsonNumber(-7)

\* C2: GET / answers 200 with exactly {"message": "Hello World"}, whatever
\* the query and whatever was handled before.
C2_RootGreeting ==
    \A w \in Workers :
        (Answered(w) /\ request[w].path = RootPath)
            => response[w] =
                   [status |-> 200, body |-> [message |-> JsonString("Hello World")]]

C2_Witness ==
    /\ Answered(1)
    /\ request[1].path = RootPath
    /\ request[1].query = << <<"q", "foo">> >>
    /\ called[1] = "read_root"
    /\ response[1].status = 200

\* C3: when the segment of GET /items/{segment} is not an integer literal,
\* the answer is a client error, read_item was not called for the request
\* and the body is no item response.
C3_NonIntegerRejected ==
    \A w \in Workers :
        (Answered(w) /\ IsItemRequest(w) /\ ~IsIntLiteral(Segment(w)))
            => /\ called[w] = "none"
               /\ response[w].status \in 400..499
               /\ DOMAIN response[w].body \cap {"item_id", "q"} = {}

C3_Witness ==
    /\ Answered(1)
    /\ request[1].path = ItemsPrefix \o <<"1", "a">>
    /\ called[1] = "none"
    /\ response[1].status = 422

\* C4: GET /items/{n}?q=s answers with q equal to the JSON string s, for
\* every s, the empty string included.
C4_QueryEchoed ==
    \A w \in Workers : \A s \in QValues :
        (Answered(w) /\ IsItemRequest(w) /\ HasQ(w, s))
            => \A n \in ValidInts :
                   request[w].path = ItemPath(n)
                       => /\ response[w].status = 200
                          /\ "q" \in DOMAIN response[w].body
                          /\ response[w].body.q = JsonString(s)

C4_Witness ==
    /\ Answered(1)
    /\ request[1].path = ItemPath(42)
    /\ request[1].query = << <<"q", "">> >>
    /\ response[1].body.q = JsonString("")

\* C5: GET /items/{n} without q succeeds and answers with q null.
C5_QueryDefaultsToNull ==
    \A w \in Workers :
        (Answered(w) /\ IsItemRequest(w) /\ NoQ(w))
            => \A n \in ValidInts :
                   request[w].path = ItemPath(n)
                       => /\ response[w].status = 200
                          /\ "q" \in DOMAIN response[w].body
                          /\ response[w].body.q = JsonNull

C5_Witness ==
    /\ Answered(1)
    /\ request[1].path = ItemPath(42)
    /\ request[1].query = <<>>
    /\ response[1] = [status |-> 200, body |-> [item_id |-> JsonNumber(42), q |-> JsonNull]]

\* C6: GET /items/{segment} fails only when the segment is no integer:
\* for every integer n, and every integer literal, and every query, the
\* answer is 200 and comes from read_item.
C6_OnlyParseFailureFails ==
    \A w \in Workers :
        (Answered(w) /\ IsItemRequest(w))
            => /\ IsIntLiteral(Segment(w))
                   => (response[w].status = 200 /\ called[w] = "read_item")
               /\ \A n \in ValidInts :
                      request[w].path = ItemPath(n) => response[w].status = 200

C6_Witness ==
    /\ Answered(1)
    /\ request[1].path = ItemPath(-7)
    /\ request[1].query = << <<"r", "foo">>, <<"q", "">> >>
    /\ response[1].status = 200

\* C7: a 200 answer has exactly the keys of its route: item_id and q for
\* GET /items/{n}, message for GET /.
C7_ExactKeys ==
    \A w \in Workers :
        (Answered(w) /\ response[w].status = 200)
            => /\ called[w] \in {"read_root", "read_item"}
               /\ called[w] = "read_item"
                      => (IsItemRequest(w) /\ DOMAIN response[w].body = {"item_id", "q"})
               /\ called[w] = "read_root"
                      => (request[w].path = RootPath /\ DOMAIN response[w].body = {"message"})

C7_Witness ==
    /\ Answered(1)
    /\ request[1].path = ItemPath(42)
    /\ request[1].query = << <<"r", "foo">> >>
    /\ response[1].status = 200
    /\ DOMAIN response[1].body = {"item_id", "q"}

\* C8: requests are independent.  Two workers that hold answers to equal
\* requests hold equal answers, in every interleaving; a step of one worker
\* leaves the route table and the other workers' request, call and answer
\* as they were.
C8_EqualRequestsEqualResponses ==
    \A w, v \in Workers :
        (Answered(w) /\ Answered(v) /\ request[w] = request[v])
            => (response[w] = response[v] /\ called[w] = called[v])

C8_StepIsLocal ==
    /\ app' = app
    /\ \A w \in Workers :
           pc'[w] # pc[w]
               => \A v \in Workers \ {w} :
                      /\ pc'[v] = pc[v]
                      /\ request'[v] = request[v]
                      /\ called'[v] = called[v]
                      /\ response'[v] = response[v]

C8_Stateless == [](C8_EqualRequestsEqualResponses) /\ [][C8_StepIsLocal]_vars

C8_Witness ==
    /\ Answered(1)
    /\ Answered(2)
    /\ request[1] = [path |-> ItemsPrefix \o <<"7">>, query |-> << <<"q", "foo">> >>]
    /\ request[2] = request[1]
    /\ response[1] = response[2]
    /\ response[1].status = 200

====
